---- MODULE Spec2Model ----
(***************************************************************************)
(* A model of the Intcode virtual machine of intcode-vm (vm.rs, memory.rs). *)
(*                                                                         *)
(* The machine is IntcodeVM<T>: a Memory<T>, an instruction pointer, a     *)
(* relative base and an optional pending input.  T is modelled as the      *)
(* mathematical integers (an arbitrary-precision cell type); to_usize      *)
(* fails exactly on negative values and to_u16 outside 0..65535.           *)
(*                                                                         *)
(* run() is a loop that may not terminate, so it is modelled one loop      *)
(* iteration per action: pc is the caller's position ("idle": outside      *)
(* run, "entry": run was called and is at the top of the loop for the      *)
(* first time, "loop": run is back at the top of the loop after an         *)
(* instruction that did not return).                                       *)
(***************************************************************************)
EXTENDS Integers, Sequences, FiniteSets, TLC

VARIABLES
    prog,                \* the cells the machine was constructed from
    memory,              \* Memory.mem: address a is memory[a + 1]
    instruction_ptr,     \* IntcodeVM.instruction_ptr
    relative_base_ptr,   \* IntcodeVM.relative_base_ptr
    next_input_value,    \* IntcodeVM.next_input_value: << >> is None, <<v>> is Some(v)
    pc,                  \* "idle", "entry" or "loop"; "consumed" after into_memory
    returned,            \* the values run() has returned so far, oldest first
    last_call            \* the caller's latest call other than run() and what it
                         \* returned

vars == <<prog, memory, instruction_ptr, relative_base_ptr, next_input_value, pc,
          returned, last_call>>

vm == <<memory, instruction_ptr, relative_base_ptr, next_input_value>>

-----------------------------------------------------------------------------
(* Bounds of the exploration. *)

\* run() is called at most MaxCalls times in a behaviour.
MaxCalls == 3

\* An instruction whose written cell would exceed MaxCell in magnitude is not explored.
MaxCell == 99999

\* An instruction that would write beyond address MaxAddr is not explored.
MaxAddr == 12

\* An AdjustRelativeBase that would move the relative base beyond MaxBase in
\* magnitude is not explored.
MaxBase == 8

\* A Memory on its own is built from at most MaxMemLen cells, addressed up
\* to MaxMemAddr and compared with at most MaxExpectedLen expected values.
MaxMemLen == 2

MaxMemAddr == 3

MaxExpectedLen == 4

-----------------------------------------------------------------------------
(* Option<T> *)

None == << >>

Some(v) == <<v>>

-----------------------------------------------------------------------------
(* A call of the caller: the method, its arguments in order, and what it
   returned: an Option as None or Some(v), a value v as <<v>>, a sequence of
   cells as that sequence, nothing as << >>. *)

Call(op, arg, result) == [op |-> op, arg |-> arg, result |-> result]

NoCall == Call("", << >>, << >>)

-----------------------------------------------------------------------------
(* memory.rs *)

\* Memory::get returning the last stored cell instead of zero beyond the
\* stored length.
GetLastBeyondEnd(mem, address) ==
    IF address < Len(mem) THEN mem[address + 1]
    ELSE IF Len(mem) = 0 THEN 0 ELSE mem[Len(mem)]

\* Memory::get: the stored cell, or the zero of T beyond the stored length.
Get(mem, address) ==
    IF address < Len(mem) THEN mem[address + 1] ELSE 0

\* Memory::set pushing the value without the resize: beyond the stored
\* length the value is appended right after the last stored cell.
SetAppending(mem, address, value) ==
    IF address < Len(mem)
    THEN [mem EXCEPT ![address + 1] = value]
    ELSE Append(mem, value)

\* Memory::set resizing to the address before the push in every case: a
\* set within the stored length drops the cells from the address on.
SetResizingAlways(mem, address, value) ==
    [i \in 1..(address + 1) |->
        IF i = address + 1 THEN value
        ELSE IF i <= Len(mem) THEN mem[i] ELSE 0]

\* Memory::set: overwrite in place, or resize(address, zero) followed by push(value).
Set(mem, address, value) ==
    IF address < Len(mem)
    THEN [mem EXCEPT ![address + 1] = value]
    ELSE [i \in 1..(address + 1) |->
            IF i <= Len(mem) THEN mem[i]
            ELSE IF i = address + 1 THEN value ELSE 0]

\* Memory::iter: the stored cells in order.
iter(mem) == [i \in 1..Len(mem) |-> mem[i]]

\* memory_starts_with asking every expected value for a stored cell: a
\* position beyond the stored length never matches.
RECURSIVE all_stored_only(_, _, _)
all_stored_only(mem, expected, i) ==
    IF i > Len(expected) THEN TRUE
    ELSE IF i <= Len(mem) /\ mem[i] = expected[i]
    THEN all_stored_only(mem, expected, i + 1)
    ELSE FALSE

memory_starts_with_stored_only(mem, expected) == all_stored_only(mem, expected, 1)

\* Iterator::all over the expected values from the i-th on, the fused
\* iterator over the stored cells advancing with it: the next stored cell
\* must equal the expected value, and once the stored cells are exhausted
\* the expected value must be zero. The first mismatch ends the walk.
RECURSIVE all(_, _, _)
all(mem, expected, i) ==
    IF i > Len(expected) THEN TRUE
    ELSE LET matches == IF i <= Len(iter(mem))
                        THEN iter(mem)[i] = expected[i]
                        ELSE expected[i] = 0
         IN  IF matches THEN all(mem, expected, i + 1) ELSE FALSE

\* Memory::memory_starts_with
memory_starts_with(mem, expected) == all(mem, expected, 1)

-----------------------------------------------------------------------------
(* Values run() returns: a VMResult or a VMError, as one record shape.      *)
(* Fields a variant does not carry are 0.                                   *)

Ret(kind, value, opcode, arg_num, arg_mode) ==
    [kind |-> kind, value |-> value, opcode |-> opcode,
     arg_num |-> arg_num, arg_mode |-> arg_mode]

Halted == Ret("Halted", 0, 0, 0, 0)

WaitingForInput == Ret("WaitingForInput", 0, 0, 0, 0)

Output(v) == Ret("Output", v, 0, 0, 0)

UnknownInstruction(other) == Ret("UnknownInstruction", 0, other, 0, 0)

InvalidArgMode(opcode, arg_num, arg_mode) ==
    Ret("InvalidArgMode", 0, opcode, arg_num, arg_mode)

ArgModeCannotBeImmediate(opcode, arg_num) ==
    Ret("ArgModeCannotBeImmediate", 0, opcode, arg_num, 0)

CannotCastToUsize(v) == Ret("CannotCastToUsize", v, 0, 0, 0)

CannotCastToU16(v) == Ret("CannotCastToU16", v, 0, 0, 0)

NoError == Ret("", 0, 0, 0, 0)

\* error::Result<T', T>: ok with val, or not ok with err.
Ok(x) == [ok |-> TRUE, val |-> x, err |-> NoError]

Err(e) == [ok |-> FALSE, val |-> 0, err |-> e]

-----------------------------------------------------------------------------
(* Casts of num::ToPrimitive on the cell type. *)

\* to_usize as a wrapping cast: a negative value becomes a large address.
to_usize_wrapping(v) == Some(v % 65536)

\* to_usize: Some for a non-negative value (every value of the model is far
\* below usize::MAX), None for a negative one.
to_usize(v) == IF v >= 0 THEN Some(v) ELSE None

\* to_u16: Some for 0..65535.
to_u16(v) == IF v >= 0 /\ v <= 65535 THEN Some(v) ELSE None

-----------------------------------------------------------------------------
(* vm.rs, mod instr: decoding *)

\* The From<(u16, &T, ArgMode, u8)> conversion building an ArgInfo.
ArgInfo(opcode, value, mode, arg_num) ==
    [opcode |-> opcode, arg_num |-> arg_num, mode |-> mode, value |-> value]

\* Instruction::parse_arg_mode
parse_arg_mode(opcode, arg_mode, arg_num) ==
    CASE arg_mode = 0 -> Ok("Positional")
      [] arg_mode = 1 -> Ok("Immediate")
      [] arg_mode = 2 -> Ok("Relative")
      [] OTHER -> Err(InvalidArgMode(opcode, arg_num, arg_mode))

\* get_3_arg_modes checking the first digit only and reading any other
\* digit that is no mode as Positional.
get_3_arg_modes_first_only(opcode) ==
    LET op1 == opcode \div 100
        arg1 == op1 % 10
        op2 == op1 \div 10
        arg2 == op2 % 10
        op3 == op2 \div 10
        arg3 == op3
        m1 == parse_arg_mode(opcode, arg1, 1)
        m2 == parse_arg_mode(opcode, arg2, 2)
        m3 == parse_arg_mode(opcode, arg3, 3)
    IN  IF ~m1.ok THEN Err(m1.err)
        ELSE Ok(<<m1.val,
                  IF m2.ok THEN m2.val ELSE "Positional",
                  IF m3.ok THEN m3.val ELSE "Positional">>)

\* Instruction::get_3_arg_modes: the three digits above the two opcode digits;
\* the third is whatever is left of the u16 (0..6), not reduced modulo 10.
get_3_arg_modes(opcode) ==
    LET op1 == opcode \div 100
        arg1 == op1 % 10
        op2 == op1 \div 10
        arg2 == op2 % 10
        op3 == op2 \div 10
        arg3 == op3
        m1 == parse_arg_mode(opcode, arg1, 1)
        m2 == parse_arg_mode(opcode, arg2, 2)
        m3 == parse_arg_mode(opcode, arg3, 3)
    IN  IF ~m1.ok THEN Err(m1.err)
        ELSE IF ~m2.ok THEN Err(m2.err)
        ELSE IF ~m3.ok THEN Err(m3.err)
        ELSE Ok(<<m1.val, m2.val, m3.val>>)

\* get_at_instr_ptr wrapping around the stored length: beyond the end it
\* reads on from the first cell.
get_at_instr_ptr_wrapping(mem, ip, offset) ==
    IF Len(mem) = 0 THEN 0 ELSE Get(mem, (ip + offset) % Len(mem))

\* IntcodeVM::get_at_instr_ptr
get_at_instr_ptr(mem, ip, offset) == Get(mem, ip + offset)

\* An Instruction: its variant and its operands in order.
Instruction(tag, args) == [tag |-> tag, args |-> args]

\* The three-operand constructors read get_3_after_intr_ptr.
create_3(tag, mem, ip, arg1_mode, arg2_mode, arg3_mode, opcode) ==
    Ok(Instruction(tag,
        << ArgInfo(opcode, get_at_instr_ptr(mem, ip, 1), arg1_mode, 1),
           ArgInfo(opcode, get_at_instr_ptr(mem, ip, 2), arg2_mode, 2),
           ArgInfo(opcode, get_at_instr_ptr(mem, ip, 3), arg3_mode, 3) >>))

\* The two-operand constructors read get_2_after_intr_ptr and drop arg3_mode.
create_2(tag, mem, ip, arg1_mode, arg2_mode, opcode) ==
    Ok(Instruction(tag,
        << ArgInfo(opcode, get_at_instr_ptr(mem, ip, 1), arg1_mode, 1),
           ArgInfo(opcode, get_at_instr_ptr(mem, ip, 2), arg2_mode, 2) >>))

\* The one-operand constructors read get_at_instr_ptr(1) and drop arg2_mode, arg3_mode.
create_1(tag, mem, ip, arg1_mode, opcode) ==
    Ok(Instruction(tag,
        << ArgInfo(opcode, get_at_instr_ptr(mem, ip, 1), arg1_mode, 1) >>))

create_add(mem, ip, m, op) == create_3("Add", mem, ip, m[1], m[2], m[3], op)

create_mul(mem, ip, m, op) == create_3("Mul", mem, ip, m[1], m[2], m[3], op)

create_read_input(mem, ip, m, op) == create_1("ReadInput", mem, ip, m[1], op)

create_write_output(mem, ip, m, op) == create_1("WriteOutput", mem, ip, m[1], op)

create_jmp_if_true(mem, ip, m, op) == create_2("JmpIfTrue", mem, ip, m[1], m[2], op)

create_jmp_if_false(mem, ip, m, op) == create_2("JmpIfFalse", mem, ip, m[1], m[2], op)

create_less_than(mem, ip, m, op) == create_3("LessThan", mem, ip, m[1], m[2], m[3], op)

create_equals(mem, ip, m, op) == create_3("Equals", mem, ip, m[1], m[2], m[3], op)

create_add_relative_base(mem, ip, m, op) ==
    create_1("AddRelativeBase", mem, ip, m[1], op)

\* match_opcode with every undefined opcode read as Halt.
match_opcode_unknown_halts(mem, ip, m, op) ==
    LET low == op % 100
    IN  CASE low = 1 -> create_add(mem, ip, m, op)
          [] low = 2 -> create_mul(mem, ip, m, op)
          [] low = 3 -> create_read_input(mem, ip, m, op)
          [] low = 4 -> create_write_output(mem, ip, m, op)
          [] low = 5 -> create_jmp_if_true(mem, ip, m, op)
          [] low = 6 -> create_jmp_if_false(mem, ip, m, op)
          [] low = 7 -> create_less_than(mem, ip, m, op)
          [] low = 8 -> create_equals(mem, ip, m, op)
          [] low = 9 -> create_add_relative_base(mem, ip, m, op)
          [] OTHER -> Ok(Instruction("Halt", << >>))

\* The match on op % 100 of Instruction::from_current_instr_ptr.
match_opcode(mem, ip, m, op) ==
    LET low == op % 100
    IN  CASE low = 1 -> create_add(mem, ip, m, op)
          [] low = 2 -> create_mul(mem, ip, m, op)
          [] low = 3 -> create_read_input(mem, ip, m, op)
          [] low = 4 -> create_write_output(mem, ip, m, op)
          [] low = 5 -> create_jmp_if_true(mem, ip, m, op)
          [] low = 6 -> create_jmp_if_false(mem, ip, m, op)
          [] low = 7 -> create_less_than(mem, ip, m, op)
          [] low = 8 -> create_equals(mem, ip, m, op)
          [] low = 9 -> create_add_relative_base(mem, ip, m, op)
          [] low = 99 -> Ok(Instruction("Halt", << >>))
          [] OTHER -> Err(UnknownInstruction(low))

\* from_current_instr_ptr looking at the opcode before the mode digits.
from_current_instr_ptr_opcode_first(mem, ip) ==
    LET instr == get_at_instr_ptr(mem, ip, 0)
        op == to_u16(instr)
    IN  IF op = None THEN Err(CannotCastToU16(instr))
        ELSE IF op[1] % 100 \notin {1, 2, 3, 4, 5, 6, 7, 8, 9, 99}
        THEN Err(UnknownInstruction(op[1] % 100))
        ELSE LET modes == get_3_arg_modes(op[1])
             IN  IF ~modes.ok THEN Err(modes.err)
                 ELSE match_opcode(mem, ip, modes.val, op[1])

\* Instruction::from_current_instr_ptr: the word cast to u16, then the three
\* mode digits, then the opcode.
from_current_instr_ptr(mem, ip) ==
    LET instr == get_at_instr_ptr(mem, ip, 0)
        op == to_u16(instr)
    IN  IF op = None THEN Err(CannotCastToU16(instr))
        ELSE LET modes == get_3_arg_modes(op[1])
             IN  IF ~modes.ok THEN Err(modes.err)
                 ELSE match_opcode(mem, ip, modes.val, op[1])

\* instruction_width counting the operands without the opcode cell.
instruction_width_operands_only(instruction) ==
    CASE instruction.tag \in {"Add", "Mul", "LessThan", "Equals"} -> 3
      [] instruction.tag \in {"JmpIfTrue", "JmpIfFalse"} -> 2
      [] instruction.tag \in {"ReadInput", "WriteOutput", "AddRelativeBase"} -> 1
      [] instruction.tag = "Halt" -> 0

\* Instruction::instruction_width
instruction_width(instruction) ==
    CASE instruction.tag \in {"Add", "Mul", "LessThan", "Equals"} -> 4
      [] instruction.tag \in {"JmpIfTrue", "JmpIfFalse"} -> 3
      [] instruction.tag \in {"ReadInput", "WriteOutput", "AddRelativeBase"} -> 2
      [] instruction.tag = "Halt" -> 1

-----------------------------------------------------------------------------
(* vm.rs, mod instr: operands *)

\* ArgInfo::resolve_value
resolve_value(arg, mem, rb) ==
    CASE arg.mode = "Immediate" -> Ok(arg.value)
      [] arg.mode = "Positional" ->
            IF to_usize(arg.value) = None
            THEN Err(CannotCastToUsize(arg.value))
            ELSE Ok(Get(mem, to_usize(arg.value)[1]))
      [] arg.mode = "Relative" ->
            LET real_address == arg.value + rb
            IN  IF to_usize(real_address) = None
                THEN Err(CannotCastToUsize(real_address))
                ELSE Ok(Get(mem, to_usize(real_address)[1]))

\* resolve_address without the Immediate check: an Immediate destination is
\* read as a Positional one.
resolve_address_immediate_as_positional(arg, rb) ==
    CASE arg.mode \in {"Immediate", "Positional"} ->
            IF to_usize(arg.value) = None
            THEN Err(CannotCastToUsize(arg.value))
            ELSE Ok(to_usize(arg.value)[1])
      [] arg.mode = "Relative" ->
            LET real_address == arg.value + rb
            IN  IF to_usize(real_address) = None
                THEN Err(CannotCastToUsize(real_address))
                ELSE Ok(to_usize(real_address)[1])

\* ArgInfo::resolve_address
resolve_address(arg, rb) ==
    CASE arg.mode = "Immediate" ->
            Err(ArgModeCannotBeImmediate(arg.opcode, arg.arg_num))
      [] arg.mode = "Positional" ->
            IF to_usize(arg.value) = None
            THEN Err(CannotCastToUsize(arg.value))
            ELSE Ok(to_usize(arg.value)[1])
      [] arg.mode = "Relative" ->
            LET real_address == arg.value + rb
            IN  IF to_usize(real_address) = None
                THEN Err(CannotCastToUsize(real_address))
                ELSE Ok(to_usize(real_address)[1])

-----------------------------------------------------------------------------
(* The programs and inputs explored. *)

\* An instruction word from its opcode and its three mode digits.
Word(op, m1, m2, m3) == op + 100 * m1 + 1000 * m2 + 10000 * m3

ValidModes == {0, 1, 2}

\* Raw cells of value operands, of destination operands and of jump targets.
ValueCells == {-1, 0, 4}

DestCells == {-1, 4, 6}

TargetCells == {-1, 0, 3, 6}

\* Values the caller supplies with set_next_input.
Inputs == {0, 7}

\* One instruction with every combination of valid modes, followed by Halt.
ThreeOperandPrograms ==
    { <<Word(op, m1, m2, m3), a, b, c, 99>> :
        op \in {1, 2, 7, 8}, m1 \in ValidModes, m2 \in ValidModes, m3 \in ValidModes,
        a \in ValueCells, b \in ValueCells, c \in DestCells }

TwoOperandPrograms ==
    { <<Word(op, m1, m2, m3), a, t, 99>> :
        op \in {5, 6}, m1 \in ValidModes, m2 \in ValidModes, m3 \in ValidModes,
        a \in ValueCells, t \in TargetCells }

OneOperandPrograms ==
    { <<Word(op, m1, m2, m3), a, 99>> :
        op \in {3, 4, 9}, m1 \in ValidModes, m2 \in ValidModes, m3 \in ValidModes,
        a \in ValueCells \cup DestCells }

\* The same instructions in Relative mode behind an AdjustRelativeBase.
RelativePrograms ==
    { <<109, r, Word(op, 2, 2, 2), a, b, c, 99>> :
        op \in {1, 2, 7, 8}, r \in {-1, 2},
        a \in ValueCells, b \in ValueCells, c \in DestCells }
    \cup
    { <<109, r, Word(op, 2, 2, 0), a, t, 99>> :
        op \in {5, 6}, r \in {-1, 2}, a \in ValueCells, t \in TargetCells }
    \cup
    { <<109, r, Word(op, 2, 0, 0), a, 99>> :
        op \in {3, 4, 9}, r \in {-1, 2}, a \in ValueCells \cup DestCells }

\* Words with a mode digit that is no mode, with an opcode that is no
\* instruction, or outside u16; Halt behind every mode combination.
OddWordPrograms ==
    { <<Word(op, m1, m2, m3), 1, 1, 1, 99>> :
        op \in {0, 1, 2, 3, 4, 5, 6, 7, 8, 9, 10, 15, 98, 99},
        m1 \in {0, 2, 3, 9}, m2 \in {0, 1, 3, 9}, m3 \in {0, 2, 3, 6} }
    \cup
    { <<w, 1, 1, 1, 99>> : w \in {-1, -99, -101, 65535, 65536, 70015, 100001} }

ExamplePrograms ==
    { <<99>>,
      <<15>>,
      <<1, 0, 0, 0, 99>>,
      <<1, 0, 0, 0>>,
      <<1, 0, 0, 3, 99>>,
      <<2, 3, 0, 3, 99>>,
      <<1, 1, 1, 4, 99, 5, 6, 0, 99>>,
      <<1002, 4, 3, 4, 33>>,
      <<3, 0, 4, 0, 99>>,
      <<3, 0, 3, 1, 99>>,
      <<4, 0, 4, 0, 99>>,
      <<104, 5, 1105, 1, 0>>,
      <<1105, 1, 0>>,
      <<105, 1, 3, -7>>,
      <<1101, 1, 1, 7>>,
      <<1101, 1, 1, 7, 3, -1, 99>>,
      <<1101, 1, 1, 7, 3, 0, 99>>,
      <<109, 5, 203, 1, 204, 1, 1206, 6, 0, 99>>,
      <<109, 8, 203, 2, 204, 2, 1006, 10, 0, 99>>,
      <<109, 2, 109, 3, 21101, 4, 5, 1, 4, 6, 99>>,
      <<102, 10, 7, 7, 1105, 1, 0, 1>>,
      <<3, 9, 8, 9, 10, 9, 4, 9, 99, -1, 8>>,
      <<3, 3, 1105, -1, 9, 1101, 0, 0, 12, 4, 12, 99, 1>> }

Programs ==
    ThreeOperandPrograms \cup TwoOperandPrograms \cup OneOperandPrograms
    \cup RelativePrograms \cup OddWordPrograms \cup ExamplePrograms

-----------------------------------------------------------------------------
(* vm.rs: IntcodeVM *)

\* IntcodeVM::new leaving the instruction pointer on the second cell.
InitPointerAtOne ==
    /\ prog \in Programs
    /\ memory = prog
    /\ instruction_ptr = 1
    /\ relative_base_ptr = 0
    /\ next_input_value = None
    /\ pc = "idle"
    /\ returned = << >>
    /\ last_call = NoCall

\* IntcodeVM::new
Init ==
    /\ prog \in Programs
    /\ memory = prog
    /\ instruction_ptr = 0
    /\ relative_base_ptr = 0
    /\ next_input_value = None
    /\ pc = "idle"
    /\ returned = << >>
    /\ last_call = NoCall

\* The caller calls run(), at most MaxCalls times.
CallRun ==
    /\ pc = "idle"
    /\ Len(returned) < MaxCalls
    /\ pc' = "entry"
    /\ UNCHANGED <<prog, vm, returned, last_call>>

\* set_next_input as Option::get_or_insert: a value already pending is kept.
SetNextInputKeepingFirst(next_input) ==
    /\ pc = "idle"
    /\ next_input_value' =
         IF next_input_value = None THEN Some(next_input) ELSE next_input_value
    /\ last_call' = Call("set_next_input", <<next_input>>, next_input_value)
    /\ UNCHANGED <<prog, memory, instruction_ptr, relative_base_ptr, pc, returned>>

\* IntcodeVM::set_next_input: Option::replace stores the value and returns
\* what was there.
SetNextInput(next_input) ==
    /\ pc = "idle"
    /\ next_input_value' = Some(next_input)
    /\ last_call' = Call("set_next_input", <<next_input>>, next_input_value)
    /\ UNCHANGED <<prog, memory, instruction_ptr, relative_base_ptr, pc, returned>>

\* IntcodeVM::into_memory: the machine is consumed and its memory handed out.
IntoMemory ==
    /\ pc = "idle"
    /\ pc' = "consumed"
    /\ last_call' = Call("into_memory", << >>, memory)
    /\ UNCHANGED <<prog, vm, returned>>

\* run() is at the top of its loop.
Running == pc \in {"entry", "loop"}

\* Decoded reading the instruction from the cells the machine was built
\* from instead of its memory.
DecodedFromProgram == from_current_instr_ptr(prog, instruction_ptr)

\* The instruction the loop body is about to match on.
Decoded == from_current_instr_ptr(memory, instruction_ptr)

\* return Ok(..) or `?` on an Err: run() hands r to the caller.
Return(r) ==
    /\ pc' = "idle"
    /\ returned' = Append(returned, r)
    /\ UNCHANGED <<prog, last_call>>

\* `?` on an Err before the instruction has changed anything.
Fail(e) == Return(e) /\ UNCHANGED vm

\* The loop of run() left after every instruction: run() returns
\* WaitingForInput where it should go on with the next instruction.
ContinueReturning == Return(WaitingForInput)

\* The end of a match arm that falls through to the next loop iteration.
Continue ==
    /\ pc' = "loop"
    /\ UNCHANGED <<prog, returned, last_call>>

\* IntcodeVM::increment_instr_ptr_by
increment_instr_ptr_by(incr) == instruction_ptr' = instruction_ptr + incr

\* The writes the exploration follows.
Explored(address, value) ==
    /\ address <= MaxAddr
    /\ value >= -MaxCell
    /\ value <= MaxCell

\* a * b stays within MaxCell (decided without forming the product).
ProductExplored(a, b) ==
    LET abs(x) == IF x < 0 THEN -x ELSE x
    IN  IF b = 0 THEN TRUE ELSE abs(a) <= MaxCell \div abs(b)

\* `?` on Instruction::from_current_instr_ptr
StepDecodeError ==
    /\ Running
    /\ ~Decoded.ok
    /\ Fail(Decoded.err)

\* The Add arm
StepAdd ==
    /\ Running
    /\ Decoded.ok
    /\ Decoded.val.tag = "Add"
    /\ LET args == Decoded.val.args
           instruction_width_ == instruction_width(Decoded.val)
           arg1_val == resolve_value(args[1], memory, relative_base_ptr)
           arg2_val == resolve_value(args[2], memory, relative_base_ptr)
           destination_addr == resolve_address(args[3], relative_base_ptr)
           result == arg1_val.val + arg2_val.val
       IN  IF ~arg1_val.ok THEN Fail(arg1_val.err)
           ELSE IF ~arg2_val.ok THEN Fail(arg2_val.err)
           ELSE IF ~destination_addr.ok THEN Fail(destination_addr.err)
           ELSE /\ Explored(destination_addr.val, result)
                /\ memory' = Set(memory, destination_addr.val, result)
                /\ increment_instr_ptr_by(instruction_width_)
                /\ UNCHANGED <<relative_base_ptr, next_input_value>>
                /\ Continue

\* The Mul arm
StepMul ==
    /\ Running
    /\ Decoded.ok
    /\ Decoded.val.tag = "Mul"
    /\ LET args == Decoded.val.args
           instruction_width_ == instruction_width(Decoded.val)
           arg1_val == resolve_value(args[1], memory, relative_base_ptr)
           arg2_val == resolve_value(args[2], memory, relative_base_ptr)
           destination_addr == resolve_address(args[3], relative_base_ptr)
           result == arg1_val.val * arg2_val.val
       IN  IF ~arg1_val.ok THEN Fail(arg1_val.err)
           ELSE IF ~arg2_val.ok THEN Fail(arg2_val.err)
           ELSE IF ~destination_addr.ok THEN Fail(destination_addr.err)
           ELSE /\ ProductExplored(arg1_val.val, arg2_val.val)
                /\ Explored(destination_addr.val, result)
                /\ memory' = Set(memory, destination_addr.val, result)
                /\ increment_instr_ptr_by(instruction_width_)
                /\ UNCHANGED <<relative_base_ptr, next_input_value>>
                /\ Continue

\* ReadInputTake with the input cloned out of the slot instead of taken.
ReadInputTakeKeepingInput(destination_addr, width) ==
    /\ Explored(destination_addr, next_input_value[1])
    /\ memory' = Set(memory, destination_addr, next_input_value[1])
    /\ increment_instr_ptr_by(width)
    /\ UNCHANGED <<relative_base_ptr, next_input_value>>
    /\ Continue

\* The Some branch of the ReadInput arm: take() empties the slot, the value
\* is stored and the pointer advanced.
ReadInputTake(destination_addr, width) ==
    /\ Explored(destination_addr, next_input_value[1])
    /\ next_input_value' = None
    /\ memory' = Set(memory, destination_addr, next_input_value[1])
    /\ increment_instr_ptr_by(width)
    /\ UNCHANGED relative_base_ptr
    /\ Continue

\* ReadInputWait with the pointer advanced before the return.
ReadInputWaitAdvancing ==
    /\ increment_instr_ptr_by(2)
    /\ UNCHANGED <<memory, relative_base_ptr, next_input_value>>
    /\ Return(WaitingForInput)

\* The None branch of the ReadInput arm
ReadInputWait ==
    /\ UNCHANGED vm
    /\ Return(WaitingForInput)

\* StepReadInput taking the pending input before it resolves the
\* destination, so that a failing destination loses the input.
StepReadInputTakingFirst ==
    /\ Running
    /\ Decoded.ok
    /\ Decoded.val.tag = "ReadInput"
    /\ LET args == Decoded.val.args
           instruction_width_ == instruction_width(Decoded.val)
           destination_addr == resolve_address(args[1], relative_base_ptr)
       IN  IF next_input_value = None THEN ReadInputWait
           ELSE IF ~destination_addr.ok
           THEN /\ next_input_value' = None
                /\ UNCHANGED <<memory, instruction_ptr, relative_base_ptr>>
                /\ Return(destination_addr.err)
           ELSE ReadInputTake(destination_addr.val, instruction_width_)

\* The ReadInput arm: the destination is resolved before the input is taken.
StepReadInput ==
    /\ Running
    /\ Decoded.ok
    /\ Decoded.val.tag = "ReadInput"
    /\ LET args == Decoded.val.args
           instruction_width_ == instruction_width(Decoded.val)
           destination_addr == resolve_address(args[1], relative_base_ptr)
       IN  IF ~destination_addr.ok THEN Fail(destination_addr.err)
           ELSE IF next_input_value # None
           THEN ReadInputTake(destination_addr.val, instruction_width_)
           ELSE ReadInputWait

\* WriteOutputReturn returning before the pointer is advanced.
WriteOutputReturnBeforeAdvance(res, width) ==
    /\ UNCHANGED vm
    /\ Return(Output(res))

\* WriteOutputReturn emptying the pending-input slot on its way out.
WriteOutputReturnClearingInput(res, width) ==
    /\ increment_instr_ptr_by(width)
    /\ next_input_value' = None
    /\ UNCHANGED <<memory, relative_base_ptr>>
    /\ Return(Output(res))

\* The end of the WriteOutput arm: the pointer is advanced, then res returned.
WriteOutputReturn(res, width) ==
    /\ increment_instr_ptr_by(width)
    /\ UNCHANGED <<memory, relative_base_ptr, next_input_value>>
    /\ Return(Output(res))

\* The WriteOutput arm
StepWriteOutput ==
    /\ Running
    /\ Decoded.ok
    /\ Decoded.val.tag = "WriteOutput"
    /\ LET args == Decoded.val.args
           instruction_width_ == instruction_width(Decoded.val)
           res == resolve_value(args[1], memory, relative_base_ptr)
       IN  IF ~res.ok THEN Fail(res.err)
           ELSE WriteOutputReturn(res.val, instruction_width_)

\* StepJmpIfTrue resolving and casting the target before it looks at the
\* condition.
StepJmpIfTrueResolvingTargetFirst ==
    /\ Running
    /\ Decoded.ok
    /\ Decoded.val.tag = "JmpIfTrue"
    /\ LET args == Decoded.val.args
           instruction_width_ == instruction_width(Decoded.val)
           arg == resolve_value(args[1], memory, relative_base_ptr)
           target_value == resolve_value(args[2], memory, relative_base_ptr)
           new_instr_ptr == to_usize(target_value.val)
       IN  IF ~arg.ok THEN Fail(arg.err)
           ELSE IF ~target_value.ok THEN Fail(target_value.err)
           ELSE IF new_instr_ptr = None
           THEN Fail(CannotCastToUsize(target_value.val))
           ELSE IF arg.val # 0
           THEN /\ instruction_ptr' = new_instr_ptr[1]
                /\ UNCHANGED <<memory, relative_base_ptr, next_input_value>>
                /\ Continue
           ELSE /\ increment_instr_ptr_by(instruction_width_)
                /\ UNCHANGED <<memory, relative_base_ptr, next_input_value>>
                /\ Continue

\* The JmpIfTrue arm: the target is resolved and cast only when the jump is taken.
StepJmpIfTrue ==
    /\ Running
    /\ Decoded.ok
    /\ Decoded.val.tag = "JmpIfTrue"
    /\ LET args == Decoded.val.args
           instruction_width_ == instruction_width(Decoded.val)
           arg == resolve_value(args[1], memory, relative_base_ptr)
           target_value == resolve_value(args[2], memory, relative_base_ptr)
           new_instr_ptr == to_usize(target_value.val)
       IN  IF ~arg.ok THEN Fail(arg.err)
           ELSE IF arg.val # 0
           THEN IF ~target_value.ok THEN Fail(target_value.err)
                ELSE IF new_instr_ptr = None
                THEN Fail(CannotCastToUsize(target_value.val))
                ELSE /\ instruction_ptr' = new_instr_ptr[1]
                     /\ UNCHANGED <<memory, relative_base_ptr, next_input_value>>
                     /\ Continue
           ELSE /\ increment_instr_ptr_by(instruction_width_)
                /\ UNCHANGED <<memory, relative_base_ptr, next_input_value>>
                /\ Continue

\* The JmpIfFalse arm
StepJmpIfFalse ==
    /\ Running
    /\ Decoded.ok
    /\ Decoded.val.tag = "JmpIfFalse"
    /\ LET args == Decoded.val.args
           instruction_width_ == instruction_width(Decoded.val)
           arg == resolve_value(args[1], memory, relative_base_ptr)
           target_value == resolve_value(args[2], memory, relative_base_ptr)
           new_instr_ptr == to_usize(target_value.val)
       IN  IF ~arg.ok THEN Fail(arg.err)
           ELSE IF arg.val = 0
           THEN IF ~target_value.ok THEN Fail(target_value.err)
                ELSE IF new_instr_ptr = None
                THEN Fail(CannotCastToUsize(target_value.val))
                ELSE /\ instruction_ptr' = new_instr_ptr[1]
                     /\ UNCHANGED <<memory, relative_base_ptr, next_input_value>>
                     /\ Continue
           ELSE /\ increment_instr_ptr_by(instruction_width_)
                /\ UNCHANGED <<memory, relative_base_ptr, next_input_value>>
                /\ Continue

\* StepLessThan comparing with <= instead of <.
StepLessThanOrEqual ==
    /\ Running
    /\ Decoded.ok
    /\ Decoded.val.tag = "LessThan"
    /\ LET args == Decoded.val.args
           instruction_width_ == instruction_width(Decoded.val)
           arg1_val == resolve_value(args[1], memory, relative_base_ptr)
           arg2_val == resolve_value(args[2], memory, relative_base_ptr)
           dest == resolve_address(args[3], relative_base_ptr)
       IN  IF ~arg1_val.ok THEN Fail(arg1_val.err)
           ELSE IF ~arg2_val.ok THEN Fail(arg2_val.err)
           ELSE IF ~dest.ok THEN Fail(dest.err)
           ELSE /\ Explored(dest.val, 1)
                /\ memory' = IF arg1_val.val <= arg2_val.val
                             THEN Set(memory, dest.val, 1)
                             ELSE Set(memory, dest.val, 0)
                /\ increment_instr_ptr_by(instruction_width_)
                /\ UNCHANGED <<relative_base_ptr, next_input_value>>
                /\ Continue

\* The LessThan arm
StepLessThan ==
    /\ Running
    /\ Decoded.ok
    /\ Decoded.val.tag = "LessThan"
    /\ LET args == Decoded.val.args
           instruction_width_ == instruction_width(Decoded.val)
           arg1_val == resolve_value(args[1], memory, relative_base_ptr)
           arg2_val == resolve_value(args[2], memory, relative_base_ptr)
           dest == resolve_address(args[3], relative_base_ptr)
       IN  IF ~arg1_val.ok THEN Fail(arg1_val.err)
           ELSE IF ~arg2_val.ok THEN Fail(arg2_val.err)
           ELSE IF ~dest.ok THEN Fail(dest.err)
           ELSE /\ Explored(dest.val, 1)
                /\ memory' = IF arg1_val.val < arg2_val.val
                             THEN Set(memory, dest.val, 1)
                             ELSE Set(memory, dest.val, 0)
                /\ increment_instr_ptr_by(instruction_width_)
                /\ UNCHANGED <<relative_base_ptr, next_input_value>>
                /\ Continue

\* The Equals arm
StepEquals ==
    /\ Running
    /\ Decoded.ok
    /\ Decoded.val.tag = "Equals"
    /\ LET args == Decoded.val.args
           instruction_width_ == instruction_width(Decoded.val)
           arg1_val == resolve_value(args[1], memory, relative_base_ptr)
           arg2_val == resolve_value(args[2], memory, relative_base_ptr)
           dest == resolve_address(args[3], relative_base_ptr)
       IN  IF ~arg1_val.ok THEN Fail(arg1_val.err)
           ELSE IF ~arg2_val.ok THEN Fail(arg2_val.err)
           ELSE IF ~dest.ok THEN Fail(dest.err)
           ELSE /\ Explored(dest.val, 1)
                /\ memory' = IF arg1_val.val = arg2_val.val
                             THEN Set(memory, dest.val, 1)
                             ELSE Set(memory, dest.val, 0)
                /\ increment_instr_ptr_by(instruction_width_)
                /\ UNCHANGED <<relative_base_ptr, next_input_value>>
                /\ Continue

\* StepAddRelativeBase assigning the operand to the relative base instead of
\* adding it.
StepAddRelativeBaseAssigning ==
    /\ Running
    /\ Decoded.ok
    /\ Decoded.val.tag = "AddRelativeBase"
    /\ LET args == Decoded.val.args
           instruction_width_ == instruction_width(Decoded.val)
           arg_val == resolve_value(args[1], memory, relative_base_ptr)
       IN  IF ~arg_val.ok THEN Fail(arg_val.err)
           ELSE /\ arg_val.val >= -MaxBase
                /\ arg_val.val <= MaxBase
                /\ relative_base_ptr' = arg_val.val
                /\ increment_instr_ptr_by(instruction_width_)
                /\ UNCHANGED <<memory, next_input_value>>
                /\ Continue

\* The AddRelativeBase arm
StepAddRelativeBase ==
    /\ Running
    /\ Decoded.ok
    /\ Decoded.val.tag = "AddRelativeBase"
    /\ LET args == Decoded.val.args
           instruction_width_ == instruction_width(Decoded.val)
           arg_val == resolve_value(args[1], memory, relative_base_ptr)
       IN  IF ~arg_val.ok THEN Fail(arg_val.err)
           ELSE /\ relative_base_ptr + arg_val.val >= -MaxBase
                /\ relative_base_ptr + arg_val.val <= MaxBase
                /\ relative_base_ptr' = relative_base_ptr + arg_val.val
                /\ increment_instr_ptr_by(instruction_width_)
                /\ UNCHANGED <<memory, next_input_value>>
                /\ Continue

\* StepHalt advancing the pointer by the width of Halt like the other arms.
StepHaltAdvancing ==
    /\ Running
    /\ Decoded.ok
    /\ Decoded.val.tag = "Halt"
    /\ increment_instr_ptr_by(instruction_width(Decoded.val))
    /\ UNCHANGED <<memory, relative_base_ptr, next_input_value>>
    /\ Return(Halted)

\* The Halt arm
StepHalt ==
    /\ Running
    /\ Decoded.ok
    /\ Decoded.val.tag = "Halt"
    /\ UNCHANGED vm
    /\ Return(Halted)

\* One iteration of the loop of IntcodeVM::run
Step ==
    \/ StepDecodeError
    \/ StepAdd
    \/ StepMul
    \/ StepReadInput
    \/ StepWriteOutput
    \/ StepJmpIfTrue
    \/ StepJmpIfFalse
    \/ StepLessThan
    \/ StepEquals
    \/ StepAddRelativeBase
    \/ StepHalt

Next ==
    \/ CallRun
    \/ \E next_input \in Inputs : SetNextInput(next_input)
    \/ IntoMemory
    \/ Step

Spec == Init /\ [][Next]_vars

-----------------------------------------------------------------------------
(* Memory on its own: a Memory built from a sequence of cells and called    *)
(* through its public methods. memory is the Memory, prog the sequence it   *)
(* was built from; the other fields of the machine play no part.            *)

\* The cells, the addresses and the sequences the calls are made with.
MemCells == {0, 5}

MemAddrs == 0..MaxMemAddr

SeqsUpTo(n) == UNION { [1..k -> MemCells] : k \in 0..n }

\* Memory::from(Vec<T>)
MemInit ==
    /\ prog \in SeqsUpTo(MaxMemLen)
    /\ memory = prog
    /\ instruction_ptr = 0
    /\ relative_base_ptr = 0
    /\ next_input_value = None
    /\ pc = "memory"
    /\ returned = << >>
    /\ last_call = NoCall

\* The calls below are made on a Memory on its own (pc = "memory").
\* What a call of Memory leaves alone besides memory itself.
MemFrame == UNCHANGED <<prog, instruction_ptr, relative_base_ptr, next_input_value,
                        pc, returned>>

\* memory.get(address)
MemGet(address) ==
    /\ pc = "memory"
    /\ last_call' = Call("get", <<address>>, <<Get(memory, address)>>)
    /\ memory' = memory
    /\ MemFrame

\* memory[address]: Index::index calls get.
MemIndex(address) ==
    /\ pc = "memory"
    /\ last_call' = Call("index", <<address>>, <<Get(memory, address)>>)
    /\ memory' = memory
    /\ MemFrame

\* memory.set(address, value)
MemSet(address, value) ==
    /\ pc = "memory"
    /\ memory' = Set(memory, address, value)
    /\ last_call' = Call("set", <<address, value>>, << >>)
    /\ MemFrame

\* memory.iter() collected
MemIter ==
    /\ pc = "memory"
    /\ last_call' = Call("iter", << >>, iter(memory))
    /\ memory' = memory
    /\ MemFrame

\* memory.memory_starts_with(expected)
MemStartsWith(expected) ==
    /\ pc = "memory"
    /\ last_call' = Call("memory_starts_with", expected,
                         <<memory_starts_with(memory, expected)>>)
    /\ memory' = memory
    /\ MemFrame

MemNext ==
    \/ \E address \in MemAddrs : MemGet(address)
    \/ \E address \in MemAddrs : MemIndex(address)
    \/ \E address \in MemAddrs, value \in MemCells : MemSet(address, value)
    \/ MemIter
    \/ \E expected \in SeqsUpTo(MaxExpectedLen) : MemStartsWith(expected)

SpecMem == MemInit /\ [][MemNext]_vars

-----------------------------------------------------------------------------
(* The crate as a whole: its user builds either a machine or a Memory on    *)
(* its own, and goes on calling what was built.                             *)

InitAny == Init \/ MemInit

NextAny == Next \/ MemNext

SpecAny == InitAny /\ [][NextAny]_vars

-----------------------------------------------------------------------------
(* The vocabulary of the properties: the instruction set as its description *)
(* states it, written without the operators that model the code.           *)

\* The cell at address a: the stored one, or zero beyond the stored length.
CellAt(m, a) == IF a >= 0 /\ a < Len(m) THEN m[a + 1] ELSE 0

\* The instruction word at the instruction pointer, its two opcode digits
\* and its n-th mode digit.
CurrentWord == CellAt(memory, instruction_ptr)

OpcodeDigits(w) == w % 100

ModeDigit(w, n) ==
    (w \div (IF n = 1 THEN 100 ELSE IF n = 2 THEN 1000 ELSE 10000)) % 10

\* The raw cell of operand n, the address it designates (Positional or
\* Relative) and the value it resolves to.
RawOperand(n) == CellAt(memory, instruction_ptr + n)

OperandAddress(n) ==
    IF ModeDigit(CurrentWord, n) = 2
    THEN RawOperand(n) + relative_base_ptr
    ELSE RawOperand(n)

OperandValue(n) ==
    IF ModeDigit(CurrentWord, n) = 1
    THEN RawOperand(n)
    ELSE CellAt(memory, OperandAddress(n))

\* The value the last completed run() returned.
LastReturned == returned[Len(returned)]

\* This step is run() returning a value of the given kind.
Returns(kind) ==
    /\ Running
    /\ pc' = "idle"
    /\ returned'[Len(returned')].kind = kind

\* This step is the first instruction of a run() called right after a
\* run() that returned the given kind.
ResumesAfter(kind) ==
    /\ pc = "entry"
    /\ returned # << >>
    /\ LastReturned.kind = kind

\* This step is run() returning the same value as the call before, with the
\* machine untouched.
ReturnsSameAgain ==
    /\ pc' = "idle"
    /\ returned' = Append(returned, LastReturned)
    /\ vm' = vm

\* This step changes no cell but the one at address a.
OnlyCellChanged(a) ==
    \A b \in 0..(Len(memory) + Len(memory')) :
        b # a => CellAt(memory', b) = CellAt(memory, b)

-----------------------------------------------------------------------------
(* Properties *)

\* C1: whenever run() returns WaitingForInput the machine is exactly as it
\* was when the Input instruction was decoded (the pointer still at that
\* Input instruction, memory and relative base unchanged) and the pending
\* slot is empty; a further run() with no input supplied returns
\* WaitingForInput again and changes nothing.
C1_WaitingForInputRetries ==
    [][ /\ Returns("WaitingForInput") =>
            /\ vm' = vm
            /\ OpcodeDigits(CellAt(memory', instruction_ptr')) = 3
            /\ next_input_value' = None
        /\ (pc = "idle" /\ pc' = "entry") => vm' = vm
        /\ (ResumesAfter("WaitingForInput") /\ next_input_value = None) =>
            ReturnsSameAgain
      ]_vars

\* run() has returned WaitingForInput twice in a row with nothing supplied.
C1_Witness ==
    /\ pc = "idle"
    /\ Len(returned) >= 2
    /\ returned[1].kind = "WaitingForInput"
    /\ returned[2].kind = "WaitingForInput"
    /\ next_input_value = None

\* C2: after run() returned WaitingForInput, set_next_input(v) and run() make
\* that Input instruction store v at its destination, empty the pending slot
\* and advance the pointer by 2 without returning, so that execution goes on
\* with the next instruction; [3,0,4,0,99] returns WaitingForInput, then with
\* 7 supplied Output(7), then Halted.
C2_InputResumesWithSuppliedValue ==
    [][ /\ (pc = "idle" /\ pc' = "idle" /\ next_input_value' # next_input_value) =>
            /\ next_input_value' # None
            /\ <<memory', instruction_ptr', relative_base_ptr'>>
                 = <<memory, instruction_ptr, relative_base_ptr>>
        /\ (ResumesAfter("WaitingForInput") /\ next_input_value # None) =>
            /\ CellAt(memory', OperandAddress(1)) = next_input_value[1]
            /\ OnlyCellChanged(OperandAddress(1))
            /\ next_input_value' = None
            /\ instruction_ptr' = instruction_ptr + 2
            /\ relative_base_ptr' = relative_base_ptr
            /\ pc' = "loop"
            /\ returned' = returned
        /\ prog = <<3, 0, 4, 0, 99>> =>
            /\ (pc = "entry" /\ returned = << >> /\ next_input_value = None) =>
                /\ pc' = "idle"
                /\ Len(returned') = 1
                /\ returned'[1].kind = "WaitingForInput"
            /\ (ResumesAfter("WaitingForInput") /\ next_input_value = <<7>>) =>
                /\ pc' = "loop"
                /\ memory' = <<7, 0, 4, 0, 99>>
                /\ instruction_ptr' = 2
            /\ (pc = "loop" /\ memory = <<7, 0, 4, 0, 99>> /\ instruction_ptr = 2) =>
                /\ pc' = "idle"
                /\ returned'[Len(returned')].kind = "Output"
                /\ returned'[Len(returned')].value = 7
            /\ ResumesAfter("Output") =>
                /\ pc' = "idle"
                /\ returned'[Len(returned')].kind = "Halted"
      ]_vars

\* [3,0,4,0,99] has returned WaitingForInput, Output(7) and Halted, in that order.
C2_Witness ==
    /\ prog = <<3, 0, 4, 0, 99>>
    /\ pc = "idle"
    /\ Len(returned) = 3
    /\ returned[1].kind = "WaitingForInput"
    /\ returned[2].kind = "Output"
    /\ returned[2].value = 7
    /\ returned[3].kind = "Halted"

\* C3: when run() returns Output(a), a is the resolved value of the single
\* operand of the Output instruction at the pointer, the pointer has been
\* advanced by 2, and memory, relative base and pending input are unchanged;
\* nothing the caller does between two run() calls moves the pointer, so the
\* next run() starts at the following instruction.
C3_OutputAdvancesThenReturns ==
    [][ /\ Returns("Output") =>
            /\ OpcodeDigits(CurrentWord) = 4
            /\ returned'[Len(returned')].value = OperandValue(1)
            /\ instruction_ptr' = instruction_ptr + 2
            /\ memory' = memory
            /\ relative_base_ptr' = relative_base_ptr
            /\ next_input_value' = next_input_value
        /\ pc = "idle" =>
            /\ instruction_ptr' = instruction_ptr
            /\ memory' = memory
            /\ relative_base_ptr' = relative_base_ptr
      ]_vars

\* [4,0,4,0,99] has emitted its two outputs, one per Output instruction, and halted.
C3_Witness ==
    /\ prog = <<4, 0, 4, 0, 99>>
    /\ pc = "idle"
    /\ Len(returned) = 3
    /\ returned[1].kind = "Output"
    /\ returned[1].value = 4
    /\ returned[2].kind = "Output"
    /\ returned[2].value = 4
    /\ returned[3].kind = "Halted"
    /\ instruction_ptr = 4

\* C4: Halt returns Halted without touching the machine (the pointer stays
\* on the Halt instruction), and every run() after a Halted returns Halted
\* again with memory, pointer, relative base and pending input unchanged;
\* [99] only ever returns Halted and its memory stays [99].
C4_HaltedIsTerminal ==
    [][ /\ Returns("Halted") =>
            /\ vm' = vm
            /\ OpcodeDigits(CellAt(memory', instruction_ptr')) = 99
        /\ ResumesAfter("Halted") => ReturnsSameAgain
        /\ prog = <<99>> =>
            /\ memory' = <<99>>
            /\ \A i \in 1..Len(returned') : returned'[i].kind = "Halted"
      ]_vars

\* A machine that ran some instructions has returned Halted twice, the
\* second time with an input pending.
C4_Witness ==
    /\ pc = "idle"
    /\ Len(returned) >= 2
    /\ returned[Len(returned)].kind = "Halted"
    /\ returned[Len(returned) - 1].kind = "Halted"
    /\ instruction_ptr > 0
    /\ next_input_value # None

\* The first cells of m are those of expected (memory_starts_with).
StartsWith(m, expected) ==
    \A i \in 1..Len(expected) : CellAt(m, i - 1) = expected[i]

\* C5: a completed Add (opcode 1) or Mul (opcode 2) has stored a + b resp.
\* a * b, a and b being its first two operands resolved by their modes, at
\* the address of its third operand, has advanced the pointer by 4 whatever
\* the modes, and has changed no other cell, the relative base or the
\* pending input; [1,0,0,0,99] halts with memory starting [2,0,0,0,99] and
\* [1002,4,3,4,33] with memory starting [1002,4,3,4,99].
C5_AddMulStoreAndAdvance ==
    [][ /\ (Running /\ pc' = "loop" /\ OpcodeDigits(CurrentWord) = 1) =>
            /\ CellAt(memory', OperandAddress(3)) = OperandValue(1) + OperandValue(2)
            /\ OnlyCellChanged(OperandAddress(3))
            /\ instruction_ptr' = instruction_ptr + 4
            /\ relative_base_ptr' = relative_base_ptr
            /\ next_input_value' = next_input_value
        /\ (Running /\ pc' = "loop" /\ OpcodeDigits(CurrentWord) = 2) =>
            /\ CellAt(memory', OperandAddress(3)) = OperandValue(1) * OperandValue(2)
            /\ OnlyCellChanged(OperandAddress(3))
            /\ instruction_ptr' = instruction_ptr + 4
            /\ relative_base_ptr' = relative_base_ptr
            /\ next_input_value' = next_input_value
        /\ (prog = <<1, 0, 0, 0, 99>> /\ returned' # << >>) =>
            /\ returned'[1].kind = "Halted"
            /\ StartsWith(memory', <<2, 0, 0, 0, 99>>)
        /\ (prog = <<1002, 4, 3, 4, 33>> /\ returned' # << >>) =>
            /\ returned'[1].kind = "Halted"
            /\ StartsWith(memory', <<1002, 4, 3, 4, 99>>)
      ]_vars

\* [1002,4,3,4,33] has multiplied the 33 at address 4 by 3 and halted on the result.
C5_Witness ==
    /\ prog = <<1002, 4, 3, 4, 33>>
    /\ pc = "idle"
    /\ returned # << >>
    /\ returned[1].kind = "Halted"
    /\ memory = <<1002, 4, 3, 4, 99>>
    /\ instruction_ptr = 4

\* C6: the instruction a step executes is the one the word now in memory at
\* the pointer denotes (its opcode decides what the step returns and how far
\* the pointer moves), also when an earlier instruction wrote that word:
\* [1,1,1,4,99,5,6,0,99] halts on the 99 at address 8 with memory starting
\* [30,1,1,4,2,5,6,0,99].
C6_DecodesCurrentMemory ==
    [][ /\ Returns("Halted") => OpcodeDigits(CurrentWord) = 99
        /\ Returns("Output") => OpcodeDigits(CurrentWord) = 4
        /\ Returns("WaitingForInput") => OpcodeDigits(CurrentWord) = 3
        /\ (Running /\ pc' = "loop") =>
            /\ OpcodeDigits(CurrentWord) \in {1, 2, 3, 5, 6, 7, 8, 9}
            /\ OpcodeDigits(CurrentWord) \in {1, 2, 7, 8} =>
                 instruction_ptr' = instruction_ptr + 4
            /\ OpcodeDigits(CurrentWord) \in {3, 9} =>
                 instruction_ptr' = instruction_ptr + 2
            /\ OpcodeDigits(CurrentWord) \in {5, 6} =>
                 \/ instruction_ptr' = instruction_ptr + 3
                 \/ instruction_ptr' = OperandValue(2)
        /\ (prog = <<1, 1, 1, 4, 99, 5, 6, 0, 99>> /\ returned' # << >>) =>
            /\ returned'[1].kind = "Halted"
            /\ StartsWith(memory', <<30, 1, 1, 4, 2, 5, 6, 0, 99>>)
            /\ instruction_ptr' = 8
      ]_vars

\* [1,1,1,4,99,5,6,0,99] has executed the Mul written over the 99 at address 4.
C6_Witness ==
    /\ prog = <<1, 1, 1, 4, 99, 5, 6, 0, 99>>
    /\ pc = "idle"
    /\ returned # << >>
    /\ returned[1].kind = "Halted"
    /\ memory = <<30, 1, 1, 4, 2, 5, 6, 0, 99>>
    /\ instruction_ptr = 8

\* The two low digits of a word as the remainder of a truncating division.
LowDigits(w) == IF w >= 0 THEN w % 100 ELSE -((-w) % 100)

DefinedOpcodes == {1, 2, 3, 4, 5, 6, 7, 8, 9, 99}

\* The two low digits of the word at the pointer are no defined opcode,
\* whichever remainder "mod 100" is taken to be for a negative word.
UndefinedLowDigits ==
    /\ LowDigits(CurrentWord) \notin DefinedOpcodes
    /\ OpcodeDigits(CurrentWord) \notin DefinedOpcodes

\* The word at the pointer fits the u16 the decoder works on, and its three
\* mode digits are modes.
WordIsU16 == CurrentWord >= 0 /\ CurrentWord <= 65535

ModeDigitsValid == \A n \in 1..3 : ModeDigit(CurrentWord, n) \in {0, 1, 2}

\* This step is run() failing with the given kind of error and leaving the
\* machine as it was.
FailsWith(kind) ==
    /\ pc' = "idle"
    /\ Len(returned') = Len(returned) + 1
    /\ returned'[Len(returned')].kind = kind
    /\ vm' = vm

\* C7 as stated: every word whose two low digits are no defined opcode
\* fails with UnknownInstruction carrying those digits.
C7_Original ==
    [][ (Running /\ UndefinedLowDigits) =>
            /\ FailsWith("UnknownInstruction")
            /\ returned'[Len(returned')].opcode = LowDigits(CurrentWord)
      ]_vars

\* C7, amended: a word within 0..65535 whose three mode digits are each 0, 1
\* or 2 and whose two low digits are not one of 1..9 or 99 fails with
\* UnknownInstruction carrying those two digits (so does [15]); a word with
\* such low digits that is outside 0..65535 or has another mode digit fails
\* with a different error.
C7_UnknownInstruction ==
    [][ /\ (Running /\ UndefinedLowDigits
               /\ WordIsU16 /\ ModeDigitsValid) =>
            /\ FailsWith("UnknownInstruction")
            /\ returned'[Len(returned')].opcode = LowDigits(CurrentWord)
        /\ (Running /\ UndefinedLowDigits
               /\ ~(WordIsU16 /\ ModeDigitsValid)) =>
            /\ pc' = "idle"
            /\ returned'[Len(returned')].kind \in {"CannotCastToU16", "InvalidArgMode"}
        /\ (prog = <<15>> /\ returned' # << >>) =>
            /\ returned'[1].kind = "UnknownInstruction"
            /\ returned'[1].opcode = 15
      ]_vars

\* A word with valid mode digits and the undefined opcode 98 has failed
\* with UnknownInstruction(98).
C7_Witness ==
    /\ prog[1] = 21098
    /\ pc = "idle"
    /\ returned # << >>
    /\ returned[1].kind = "UnknownInstruction"
    /\ returned[1].opcode = 98

\* The operand a writing instruction stores through: the third of Add, Mul,
\* LessThan and Equals, the first of Input.
DestinationOperand == IF OpcodeDigits(CurrentWord) = 3 THEN 1 ELSE 3

\* The word at the pointer decodes to a writing instruction whose
\* destination operand has mode digit 1.
WritesThroughImmediate ==
    /\ WordIsU16
    /\ ModeDigitsValid
    /\ OpcodeDigits(CurrentWord) \in {1, 2, 3, 7, 8}
    /\ ModeDigit(CurrentWord, DestinationOperand) = 1

\* The value operands of the instruction at the pointer designate no
\* negative address.
ValueOperandsResolve ==
    \A n \in 1..(DestinationOperand - 1) :
        ModeDigit(CurrentWord, n) # 1 => OperandAddress(n) >= 0

\* C8 as stated: every writing instruction with an Immediate destination
\* fails with ArgModeCannotBeImmediate and writes nothing.
C8_Original ==
    [][ (Running /\ WritesThroughImmediate) =>
            /\ FailsWith("ArgModeCannotBeImmediate")
            /\ returned'[Len(returned')].opcode = CurrentWord
            /\ returned'[Len(returned')].arg_num = DestinationOperand
      ]_vars

\* C8, amended: a writing instruction (Add, Mul, Input, LessThan, Equals)
\* whose destination operand has mode digit 1 fails with
\* ArgModeCannotBeImmediate carrying the instruction word and the operand
\* index, provided its value operands resolve; when a value operand
\* designates a negative address that operand's CannotCastToUsize is what
\* run() fails with.  No cell is written either way, and Input, which has no
\* value operand, fails so with or without a pending input.
C8_ImmediateDestination ==
    [][ /\ (Running /\ WritesThroughImmediate /\ ValueOperandsResolve) =>
            /\ FailsWith("ArgModeCannotBeImmediate")
            /\ returned'[Len(returned')].opcode = CurrentWord
            /\ returned'[Len(returned')].arg_num = DestinationOperand
        /\ (Running /\ WritesThroughImmediate /\ ~ValueOperandsResolve) =>
            FailsWith("CannotCastToUsize")
        /\ (Running /\ WritesThroughImmediate /\ OpcodeDigits(CurrentWord) = 3) =>
            ValueOperandsResolve
      ]_vars

\* An Input with an Immediate destination has failed although no input was
\* pending, and the caller has since supplied one.
C8_Witness ==
    /\ prog[1] = 103
    /\ pc = "idle"
    /\ Len(returned) = 2
    /\ returned[1].kind = "ArgModeCannotBeImmediate"
    /\ returned[1].arg_num = 1
    /\ returned[2].kind = "ArgModeCannotBeImmediate"
    /\ next_input_value # None
    /\ memory = prog

\* C9: a word within 0..65535 one of whose three mode digits (hundreds,
\* thousands, ten-thousands) is not 0, 1 or 2 fails with InvalidArgMode
\* whatever its opcode digits are, defined or not, and whether or not the
\* opcode has an operand at that position; the error carries the word, the
\* position of the first such digit and the digit.
C9_InvalidArgMode ==
    [][ (Running /\ WordIsU16 /\ ~ModeDigitsValid) =>
            LET first == CHOOSE n \in 1..3 :
                            /\ ModeDigit(CurrentWord, n) \notin {0, 1, 2}
                            /\ \A k \in 1..(n - 1) : ModeDigit(CurrentWord, k) \in {0, 1, 2}
            IN  /\ FailsWith("InvalidArgMode")
                /\ returned'[Len(returned')].opcode = CurrentWord
                /\ returned'[Len(returned')].arg_num = first
                /\ returned'[Len(returned')].arg_mode = ModeDigit(CurrentWord, first)
      ]_vars

\* 60099, a Halt behind a ten-thousands digit of 6, has failed with InvalidArgMode.
C9_Witness ==
    /\ prog[1] = 60099
    /\ pc = "idle"
    /\ returned # << >>
    /\ returned[1].kind = "InvalidArgMode"
    /\ returned[1].arg_num = 3
    /\ returned[1].arg_mode = 6

\* The addresses the instruction at the pointer uses, in the order it uses
\* them: those its Positional and Relative operands designate and, for a
\* jump that is taken, the value of its target operand.  An operand behind
\* one that designates a negative address is listed as if that one had
\* resolved.
TakesJump ==
    \/ OpcodeDigits(CurrentWord) = 5 /\ OperandValue(1) # 0
    \/ OpcodeDigits(CurrentWord) = 6 /\ OperandValue(1) = 0

OperandAddressUse(n) ==
    IF ModeDigit(CurrentWord, n) = 1 THEN << >> ELSE <<OperandAddress(n)>>

AddressesUsed ==
    CASE OpcodeDigits(CurrentWord) \in {1, 2, 7, 8} ->
            OperandAddressUse(1) \o OperandAddressUse(2) \o OperandAddressUse(3)
      [] OpcodeDigits(CurrentWord) \in {3, 4, 9} -> OperandAddressUse(1)
      [] OpcodeDigits(CurrentWord) \in {5, 6} ->
            OperandAddressUse(1) \o
            (IF TakesJump THEN OperandAddressUse(2) \o <<OperandValue(2)>> ELSE << >>)
      [] OTHER -> << >>

NegativeAddressesUsed == SelectSeq(AddressesUsed, LAMBDA a : a < 0)

\* C10: an instruction that uses a negative value as an address (the raw
\* cell of a Positional operand, raw cell + relative base of a Relative one,
\* or the target of a jump it takes) makes run() fail with CannotCastToUsize
\* carrying the first such value, with the instruction pointer (and the rest
\* of the machine) unchanged.
C10_NegativeAddress ==
    [][ (Running /\ WordIsU16 /\ ModeDigitsValid /\ NegativeAddressesUsed # << >>) =>
            /\ FailsWith("CannotCastToUsize")
            /\ returned'[Len(returned')].value = NegativeAddressesUsed[1]
            /\ instruction_ptr' = instruction_ptr
      ]_vars

\* A jump taken to the target -1 has failed with CannotCastToUsize(-1) and
\* left the pointer on the jump.
C10_Witness ==
    /\ prog = <<1105, 4, -1, 99>>
    /\ pc = "idle"
    /\ returned # << >>
    /\ returned[1].kind = "CannotCastToUsize"
    /\ returned[1].value = -1
    /\ instruction_ptr = 0

\* The value a writing instruction stores: the sum, the product, the pending
\* input, or the 1 or 0 of a comparison.
WrittenValue ==
    CASE OpcodeDigits(CurrentWord) = 1 -> OperandValue(1) + OperandValue(2)
      [] OpcodeDigits(CurrentWord) = 2 -> OperandValue(1) * OperandValue(2)
      [] OpcodeDigits(CurrentWord) = 3 -> next_input_value[1]
      [] OpcodeDigits(CurrentWord) = 7 ->
            IF OperandValue(1) < OperandValue(2) THEN 1 ELSE 0
      [] OpcodeDigits(CurrentWord) = 8 ->
            IF OperandValue(1) = OperandValue(2) THEN 1 ELSE 0

\* This step completes a writing instruction whose destination operand is
\* in Relative mode.
WritesThroughRelative ==
    /\ Running
    /\ pc' = "loop"
    /\ OpcodeDigits(CurrentWord) \in {1, 2, 3, 7, 8}
    /\ ModeDigit(CurrentWord, DestinationOperand) = 2

\* What an operand with raw cell r reads from the machine as this step
\* leaves it, in Relative and in Positional mode.
ReadsBackRelative(r) ==
    resolve_value(ArgInfo(4, r, "Relative", 1), memory', relative_base_ptr')

ReadsBackPositional(r) ==
    resolve_value(ArgInfo(4, r, "Positional", 1), memory', relative_base_ptr')

\* C11: AdjustRelativeBase adds its resolved operand to the relative base,
\* which accumulates from zero over successive adjustments, advances the
\* pointer by 2 and changes neither memory nor the pending input; a value
\* written through a Relative destination with raw cell r lands at the
\* absolute address r + relative_base and is read back both by a Relative
\* operand r and by a Positional operand r + relative_base.
C11_RelativeBase ==
    [][ /\ (Running /\ pc' = "loop" /\ OpcodeDigits(CurrentWord) = 9) =>
            /\ relative_base_ptr' = relative_base_ptr + OperandValue(1)
            /\ instruction_ptr' = instruction_ptr + 2
            /\ memory' = memory
            /\ next_input_value' = next_input_value
        /\ WritesThroughRelative =>
            LET r == RawOperand(DestinationOperand)
            IN  /\ CellAt(memory', r + relative_base_ptr) = WrittenValue
                /\ OnlyCellChanged(r + relative_base_ptr)
                /\ ReadsBackRelative(r) = Ok(WrittenValue)
                /\ ReadsBackPositional(r + relative_base_ptr) = Ok(WrittenValue)
        /\ (prog = <<109, 2, 109, 3, 21101, 4, 5, 1, 4, 6, 99>> /\ returned' # << >>) =>
            /\ returned'[1] = Output(9)
            /\ relative_base_ptr' = 5
            /\ CellAt(memory', 6) = 9
        /\ (prog = <<109, 8, 203, 2, 204, 2, 1006, 10, 0, 99>>
               /\ Running /\ pc' = "idle"
               /\ returned'[Len(returned')].kind \in {"Output", "Halted"}) =>
            /\ relative_base_ptr' = 8
            /\ returned'[Len(returned')].kind = "Output" =>
                   returned'[Len(returned')].value = CellAt(memory', 10)
            /\ returned'[Len(returned')].kind = "Halted" =>
                   CellAt(memory', 10) = 7
      ]_vars

\* [109,8,203,2,204,2,1006,10,0,99] with relative base 8 has stored the
\* input 7 at address 10 through the Relative operand 2, put it out through
\* the Relative operand 2 and, reading it through the Positional operand 10,
\* not jumped and halted.
C11_Witness ==
    /\ prog = <<109, 8, 203, 2, 204, 2, 1006, 10, 0, 99>>
    /\ pc = "idle"
    /\ Len(returned) >= 2
    /\ returned[Len(returned) - 1] = Output(7)
    /\ returned[Len(returned)] = Halted
    /\ relative_base_ptr = 8
    /\ CellAt(memory, 10) = 7
    /\ instruction_ptr = 9

\* The word at the pointer decodes to a jump whose first operand designates
\* no negative address.
DecodesToJump ==
    /\ Running
    /\ WordIsU16
    /\ ModeDigitsValid
    /\ OpcodeDigits(CurrentWord) \in {5, 6}
    /\ ModeDigit(CurrentWord, 1) # 1 => OperandAddress(1) >= 0

\* The second operand of the jump at the pointer resolves to an address.
TargetAddressable ==
    /\ ModeDigit(CurrentWord, 2) # 1 => OperandAddress(2) >= 0
    /\ OperandValue(2) >= 0

\* C16: JumpIfTrue sets the pointer to its resolved second operand when the
\* first is non-zero and advances by 3 otherwise; JumpIfFalse does so when
\* the first is zero; neither changes memory, the relative base or the
\* pending input. The target is resolved and cast only when the jump is
\* taken: on the branch not taken a target that is no address causes no
\* error.
C16_Jumps ==
    [][ /\ (DecodesToJump /\ TakesJump /\ TargetAddressable) =>
            /\ pc' = "loop"
            /\ instruction_ptr' = OperandValue(2)
        /\ (DecodesToJump /\ TakesJump /\ ~TargetAddressable) =>
            /\ FailsWith("CannotCastToUsize")
        /\ (DecodesToJump /\ ~TakesJump) =>
            /\ pc' = "loop"
            /\ instruction_ptr' = instruction_ptr + 3
        /\ DecodesToJump =>
            /\ memory' = memory
            /\ relative_base_ptr' = relative_base_ptr
            /\ next_input_value' = next_input_value
        /\ (prog = <<105, 1, 3, -7>> /\ returned' # << >>) =>
            returned'[1] = CannotCastToUsize(-7)
      ]_vars

\* [105,0,-1,99]: the JumpIfTrue on the immediate 0 has not been taken, its
\* target at the address -1 was never resolved, and the machine has halted
\* on the 99 three cells on.
C16_Witness ==
    /\ prog = <<105, 0, -1, 99>>
    /\ pc = "idle"
    /\ returned # << >>
    /\ returned[1] = Halted
    /\ instruction_ptr = 3
    /\ memory = prog

\* This step stores v at the address a and nowhere else: the cell at a, and
\* with it every cell up to a, is stored afterwards and holds v.
WritesExactlyOneCell(a, v) ==
    /\ a >= 0
    /\ Len(memory') = (IF a < Len(memory) THEN Len(memory) ELSE a + 1)
    /\ CellAt(memory', a) = v
    /\ OnlyCellChanged(a)

\* C17: LessThan writes 1 to its destination when its first operand is less
\* than its second and 0 otherwise; Equals writes 1 when the two are equal
\* and 0 otherwise; both always write exactly one cell, whose new value is
\* 0 or 1, advance the pointer by 4 and leave the relative base and the
\* pending input alone.
\* [3,9,8,9,10,9,4,9,99,-1,8] puts out 0 for an input other than 8.
C17_Comparisons ==
    [][ /\ (Running /\ pc' = "loop" /\ OpcodeDigits(CurrentWord) = 7) =>
            /\ OperandValue(1) < OperandValue(2) =>
                   WritesExactlyOneCell(OperandAddress(3), 1)
            /\ OperandValue(1) >= OperandValue(2) =>
                   WritesExactlyOneCell(OperandAddress(3), 0)
        /\ (Running /\ pc' = "loop" /\ OpcodeDigits(CurrentWord) = 8) =>
            /\ OperandValue(1) = OperandValue(2) =>
                   WritesExactlyOneCell(OperandAddress(3), 1)
            /\ OperandValue(1) # OperandValue(2) =>
                   WritesExactlyOneCell(OperandAddress(3), 0)
        /\ (Running /\ pc' = "loop" /\ OpcodeDigits(CurrentWord) \in {7, 8}) =>
            /\ CellAt(memory', OperandAddress(3)) \in {0, 1}
            /\ instruction_ptr' = instruction_ptr + 4
            /\ relative_base_ptr' = relative_base_ptr
            /\ next_input_value' = next_input_value
        /\ (prog = <<3, 9, 8, 9, 10, 9, 4, 9, 99, -1, 8>>
               /\ Running /\ pc' = "idle"
               /\ returned'[Len(returned')].kind = "Output") =>
            /\ returned'[Len(returned')].value = 0
            /\ CellAt(memory', 9) = 0
      ]_vars

\* [1107,-1,0,6,99]: LessThan has compared the immediates -1 and 0 and
\* stored 1 at the address 6, growing the memory by the cell 5 holding zero,
\* and the machine has halted on the 99 four cells on.
C17_Witness ==
    /\ prog = <<1107, -1, 0, 6, 99>>
    /\ pc = "idle"
    /\ returned # << >>
    /\ returned[1] = Halted
    /\ memory = <<1107, -1, 0, 6, 99, 0, 1>>
    /\ instruction_ptr = 4

\* The kinds of VMError.
ErrorKinds ==
    { "UnknownInstruction", "InvalidArgMode", "ArgModeCannotBeImmediate",
      "CannotCastToUsize", "CannotCastToU16" }

\* This step is run() returning an error.
ReturnsError ==
    /\ Running
    /\ pc' = "idle"
    /\ returned'[Len(returned')].kind \in ErrorKinds

\* C18: when run() returns an error, memory, the pointer, the relative base
\* and the pending input are exactly as they were before the failing
\* instruction was decoded: a failing instruction has no partial effect, and
\* a failing Input does not consume the pending input. What the earlier
\* instructions of the same run() did is kept: [1101,1,1,7,3,-1,99] fails on
\* the Input at address 4 with the sum 2 stored at address 7.
C18_ErrorsLeaveMachine ==
    [][ /\ ReturnsError =>
            /\ memory' = memory
            /\ instruction_ptr' = instruction_ptr
            /\ relative_base_ptr' = relative_base_ptr
            /\ next_input_value' = next_input_value
        /\ (ReturnsError /\ prog = <<1101, 1, 1, 7, 3, -1, 99>>) =>
            /\ returned'[Len(returned')] = CannotCastToUsize(-1)
            /\ memory' = <<1101, 1, 1, 7, 3, -1, 99, 2>>
            /\ instruction_ptr' = 4
        /\ (ReturnsError /\ prog = <<1101, 1, 1, 7>>) =>
            /\ returned'[Len(returned')] = UnknownInstruction(0)
            /\ memory' = <<1101, 1, 1, 7, 0, 0, 0, 2>>
            /\ instruction_ptr' = 4
      ]_vars

\* [1101,1,1,7,3,-1,99] with the input 7 pending: the Input at address 4 has
\* failed on its destination -1; the sum stored by the Add before it is
\* kept, the pointer is on the Input and the 7 is still pending.
C18_Witness ==
    /\ prog = <<1101, 1, 1, 7, 3, -1, 99>>
    /\ pc = "idle"
    /\ returned # << >>
    /\ returned[1] = CannotCastToUsize(-1)
    /\ memory = <<1101, 1, 1, 7, 3, -1, 99, 2>>
    /\ instruction_ptr = 4
    /\ next_input_value = <<7>>

\* The addresses the value operands of the writing instruction at the
\* pointer designate, in operand order, and the negative ones among them.
ValueOperandAddresses ==
    IF DestinationOperand = 3
    THEN OperandAddressUse(1) \o OperandAddressUse(2)
    ELSE << >>

NegativeValueOperandAddresses ==
    SelectSeq(ValueOperandAddresses, LAMBDA a : a < 0)

\* C19: the checks of an instruction come in a fixed order. A word that is
\* negative or above 65535 fails with CannotCastToU16 carrying the word,
\* whatever its mode digits and opcode digits are; a word within range with
\* a digit that is no mode fails with InvalidArgMode even when its opcode is
\* undefined; and the operands are resolved left to right, so that a value
\* operand at a negative address is reported, the first such first, before
\* an Immediate destination is.
C19_OrderOfChecks ==
    [][ /\ (Running /\ ~WordIsU16) =>
            /\ FailsWith("CannotCastToU16")
            /\ returned'[Len(returned')] = CannotCastToU16(CurrentWord)
        /\ (Running /\ WordIsU16 /\ ~ModeDigitsValid /\ UndefinedLowDigits) =>
            /\ FailsWith("InvalidArgMode")
            /\ returned'[Len(returned')].opcode = CurrentWord
        /\ (Running /\ WritesThroughImmediate
               /\ NegativeValueOperandAddresses # << >>) =>
            /\ FailsWith("CannotCastToUsize")
            /\ returned'[Len(returned')] =
                   CannotCastToUsize(NegativeValueOperandAddresses[1])
        /\ (Running /\ WritesThroughImmediate
               /\ NegativeValueOperandAddresses = << >>) =>
            /\ FailsWith("ArgModeCannotBeImmediate")
      ]_vars

\* The word 70015 is above 65535, has the digit 7 where the third mode is
\* read and the undefined opcode 15: it has failed with
\* CannotCastToU16(70015).
C19_Witness ==
    /\ prog[1] = 70015
    /\ pc = "idle"
    /\ returned # << >>
    /\ returned[1] = CannotCastToU16(70015)
    /\ instruction_ptr = 0
    /\ memory = prog

\* This step is a call of set_next_input.
CallsSetNextInput ==
    /\ pc = "idle"
    /\ pc' = "idle"
    /\ last_call'.op = "set_next_input"

\* This step is an Input instruction storing the pending value.
InputStores ==
    /\ Running
    /\ pc' = "loop"
    /\ OpcodeDigits(CurrentWord) = 3

\* C15: set_next_input(v) leaves the slot holding exactly v and returns
\* what was pending before, nothing if the slot was empty; it touches
\* nothing else. The slot never holds more than one value, so a second
\* set_next_input before any Input discards the first: the value an Input
\* stores is the one of the latest set_next_input.
C15_SetNextInput ==
    [][ /\ CallsSetNextInput =>
            /\ next_input_value' = last_call'.arg
            /\ last_call'.result = next_input_value
            /\ memory' = memory
            /\ instruction_ptr' = instruction_ptr
            /\ relative_base_ptr' = relative_base_ptr
            /\ returned' = returned
        /\ Len(next_input_value') <= 1
        /\ InputStores =>
            /\ last_call.op = "set_next_input"
            /\ next_input_value = last_call.arg
            /\ CellAt(memory', OperandAddress(1)) = last_call.arg[1]
            /\ next_input_value' = << >>
      ]_vars

\* [3,0,4,0,99]: set_next_input(0) and then set_next_input(7), which returned
\* the discarded 0, were called before run(); the Input has stored the 7 and
\* the Output has returned it.
C15_Witness ==
    /\ prog = <<3, 0, 4, 0, 99>>
    /\ last_call = Call("set_next_input", <<7>>, <<0>>)
    /\ pc = "idle"
    /\ returned = <<Output(7)>>
    /\ memory = <<7, 0, 4, 0, 99>>
    /\ next_input_value = << >>

\* run() has not been called, or is about to execute its first instruction.
NothingExecuted == returned = << >> /\ pc \in {"idle", "entry"}

\* C20: a machine fresh from new(memory) has the pointer at 0, the relative
\* base at zero, an empty pending slot and memory equal to the given
\* sequence; into_memory() right after new returns that sequence unchanged;
\* and the first run() decodes the instruction at address 0, the first cell
\* of the sequence.
C20_FreshMachine ==
    [][ /\ NothingExecuted =>
            /\ instruction_ptr = 0
            /\ relative_base_ptr = 0
            /\ memory = prog
        /\ (NothingExecuted /\ last_call = NoCall) =>
            next_input_value = << >>
        /\ (NothingExecuted /\ pc' = "consumed") =>
            /\ last_call'.op = "into_memory"
            /\ last_call'.result = prog
        /\ (NothingExecuted /\ pc = "entry") =>
            /\ CurrentWord = prog[1]
            /\ ~WordIsU16 => returned' = <<CannotCastToU16(prog[1])>>
            /\ prog[1] = 99 => returned' = <<Halted>>
            /\ prog[1] = 104 => returned' = <<Output(prog[2])>>
            /\ prog[1] = 1101 =>
                   \/ /\ pc' = "loop"
                      /\ CellAt(memory', prog[4]) = prog[2] + prog[3]
                   \/ returned' = <<CannotCastToUsize(prog[4])>>
      ]_vars

\* into_memory() called on the fresh machine of [1,0,0,0,99] has returned
\* [1,0,0,0,99].
C20_Witness ==
    /\ prog = <<1, 0, 0, 0, 99>>
    /\ pc = "consumed"
    /\ returned = << >>
    /\ last_call = Call("into_memory", << >>, <<1, 0, 0, 0, 99>>)
    /\ instruction_ptr = 0
    /\ relative_base_ptr = 0
    /\ next_input_value = << >>

\* This step is a call of the given method of Memory.
MemCalls(op) == pc = "memory" /\ last_call'.op = op

\* C12: get(a) returns zero for an address at or beyond the stored length
\* and the stored value otherwise; it never fails and never changes the
\* memory, which in particular does not grow; indexing memory[a] returns
\* the same as get(a).
C12_Get ==
    [][ /\ MemCalls("get") =>
            LET a == last_call'.arg[1]
            IN  /\ Len(last_call'.result) = 1
                /\ a >= Len(memory) => last_call'.result = <<0>>
                /\ a < Len(memory) => last_call'.result = <<memory[a + 1]>>
                /\ memory' = memory
                /\ Len(memory') = Len(memory)
        /\ MemCalls("index") =>
            LET a == last_call'.arg[1]
            IN  /\ last_call'.result = <<Get(memory, a)>>
                /\ last_call'.result = <<CellAt(memory, a)>>
                /\ memory' = memory
      ]_vars

\* get(3) on the memory built from [5] has returned zero and the memory is
\* still [5].
C12_Witness ==
    /\ prog = <<5>>
    /\ pc = "memory"
    /\ memory = <<5>>
    /\ last_call = Call("get", <<3>>, <<0>>)

\* C13: after set(a, v), get(a) returns v and get(b) returns for every other
\* address b what it returned before: the cells below a are undisturbed and
\* the cells of a gap between the old end and a read zero.
C13_Set ==
    [][ MemCalls("set") =>
            LET a == last_call'.arg[1]
                v == last_call'.arg[2]
            IN  /\ Get(memory', a) = v
                /\ CellAt(memory', a) = v
                /\ \A b \in 0..(MaxMemAddr + 1) :
                       b # a => /\ Get(memory', b) = Get(memory, b)
                                /\ CellAt(memory', b) = CellAt(memory, b)
                /\ \A b \in 0..(MaxMemAddr + 1) :
                       (Len(memory) <= b /\ b < a) => CellAt(memory', b) = 0
      ]_vars

\* set(3, 5) on the memory built from [5] has left [5,0,0,5]: the 5 at
\* address 0 undisturbed, the gap at 1 and 2 zero.
C13_Witness ==
    /\ prog = <<5>>
    /\ pc = "memory"
    /\ memory = <<5, 0, 0, 5>>
    /\ last_call = Call("set", <<3, 5>>, << >>)

\* C14: memory_starts_with(expected) is true exactly when every expected
\* value equals what get returns at its position: a prefix shorter than the
\* memory is accepted, a position beyond the stored length matches only a
\* zero, and one differing position makes it false.
C14_MemoryStartsWith ==
    [][ MemCalls("memory_starts_with") =>
            LET expected == last_call'.arg
            IN  /\ last_call'.result =
                       << \A i \in 1..Len(expected) :
                              expected[i] = CellAt(memory, i - 1) >>
                /\ last_call'.result = <<StartsWith(memory, expected)>>
                /\ (\E i \in 1..Len(expected) :
                        expected[i] # Get(memory, i - 1)) =>
                       last_call'.result = <<FALSE>>
                /\ memory' = memory
      ]_vars

\* memory_starts_with([5,0,0]) on the memory built from [5] has returned
\* true: the two positions beyond the stored length matched the zeros.
C14_Witness ==
    /\ prog = <<5>>
    /\ pc = "memory"
    /\ memory = <<5>>
    /\ last_call = Call("memory_starts_with", <<5, 0, 0>>, <<TRUE>>)

\* This step is a machine instruction that completes a write, and the
\* address it writes to.
CompletesWrite ==
    /\ Running
    /\ pc' = "loop"
    /\ OpcodeDigits(CurrentWord) \in {1, 2, 3, 7, 8}

WrittenAddress == OperandAddress(DestinationOperand)

\* This step is a write to the address a with the value v, by a call of set
\* on a Memory on its own or by an instruction of the machine.
Stores(a, v) ==
    \/ MemCalls("set") /\ last_call'.arg = <<a, v>>
    \/ CompletesWrite /\ WrittenAddress = a /\ WrittenValue = v

\* Memory m followed by zeros up to the address a, and v at a.
GrownTo(m, a, v) ==
    [i \in 1..(a + 1) |->
        IF i <= Len(m) THEN m[i] ELSE IF i = a + 1 THEN v ELSE 0]

\* C21: the stored length of a Memory never decreases, under get, index,
\* set, iter and memory_starts_with as under the instructions of the
\* machine. It changes only on a write to an address a at or beyond the
\* current length, after which it is exactly a + 1, and iter() yields the
\* stored cells in address order: after such a write the old cells, zeros
\* for the gap, then the value. A fetch of an instruction or of an operand
\* beyond the end stores nothing.
C21_StoredLength ==
    [][ /\ Len(memory') >= Len(memory)
        /\ Len(memory') # Len(memory) =>
               \E a \in Len(memory)..(Len(memory') - 1) :
                   /\ Stores(a, memory'[a + 1])
                   /\ Len(memory') = a + 1
                   /\ memory' = GrownTo(memory, a, memory'[a + 1])
        /\ \A a \in 0..(MaxAddr + 1) :
               ((MemCalls("set") /\ last_call'.arg[1] = a)
                   \/ (CompletesWrite /\ WrittenAddress = a)) =>
                   Len(memory') = (IF a >= Len(memory) THEN a + 1 ELSE Len(memory))
        /\ MemCalls("iter") =>
            /\ Len(last_call'.result) = Len(memory)
            /\ \A i \in 1..Len(memory) :
                   last_call'.result[i] = CellAt(memory, i - 1)
            /\ memory' = memory
        /\ (MemCalls("iter") /\ last_call.op = "set") =>
            /\ Len(last_call'.result) >= last_call.arg[1] + 1
            /\ last_call'.result[last_call.arg[1] + 1] = last_call.arg[2]
        /\ (MemCalls("get") \/ MemCalls("index") \/ MemCalls("memory_starts_with")) =>
            memory' = memory
        /\ (Running /\ ~CompletesWrite) => memory' = memory
        /\ (Running /\ instruction_ptr >= Len(memory)) => memory' = memory
      ]_vars

\* iter() on the Memory built from [5] after set(3, 5) has yielded the four
\* cells 5, 0, 0, 5.
C21_Witness ==
    /\ prog = <<5>>
    /\ pc = "memory"
    /\ memory = <<5, 0, 0, 5>>
    /\ last_call = Call("iter", << >>, <<5, 0, 0, 5>>)

\* The instruction pointer is at or beyond the stored length of memory.
PointerBeyondEnd == instruction_ptr >= Len(memory)

\* C22: when execution reaches an instruction pointer at or beyond the
\* stored length of memory, by running off the end of a program without
\* Halt or by jumping to an address never written, the implied zero cell is
\* decoded as opcode 0 and run() fails with UnknownInstruction(0), leaving
\* the machine as it is: it does not return Halted and does not go on
\* executing there, and a further run() fails the same way. An idle
\* machine whose pointer is beyond the end was left there by an Output or
\* has failed so.
C22_OffTheEnd ==
    [][ /\ (Running /\ PointerBeyondEnd) =>
            /\ FailsWith("UnknownInstruction")
            /\ returned'[Len(returned')] = UnknownInstruction(0)
        /\ (pc = "idle" /\ PointerBeyondEnd /\ returned # << >>
               /\ LastReturned.kind \notin {"Output"}) =>
            LastReturned = UnknownInstruction(0)
        /\ (prog = <<1, 0, 0, 0>> /\ returned' # << >>) =>
            /\ returned'[Len(returned')] = UnknownInstruction(0)
            /\ memory' = <<2, 0, 0, 0>>
            /\ instruction_ptr' = 4
        /\ (prog = <<1105, 4, 6, 99>> /\ returned' # << >>) =>
            /\ returned'[Len(returned')] = UnknownInstruction(0)
            /\ memory' = prog
            /\ instruction_ptr' = 6
      ]_vars

\* [1,0,0,0] has no Halt: after the Add the pointer 4 is the stored length,
\* and run() has failed with UnknownInstruction(0), twice.
C22_Witness ==
    /\ prog = <<1, 0, 0, 0>>
    /\ pc = "idle"
    /\ returned = <<UnknownInstruction(0), UnknownInstruction(0)>>
    /\ memory = <<2, 0, 0, 0>>
    /\ instruction_ptr = 4

\* This step decodes an Input instruction while no value is pending.
InputFindsSlotEmpty ==
    /\ Running
    /\ WordIsU16
    /\ ModeDigitsValid
    /\ OpcodeDigits(CurrentWord) = 3
    /\ next_input_value = << >>

\* C23: a value placed in the pending-input slot stays there unchanged
\* across the instructions other than Input and across the Output and
\* Halted returns of run(); only set_next_input changes it and only an
\* Input that stores it removes it. Each supplied value is stored by at most
\* one Input: the storing Input empties the slot, and an Input that finds
\* the slot empty stores nothing; of the two Inputs of [3,0,3,1,99] the
\* second stops with WaitingForInput when one value was supplied.
C23_PendingInputPersists ==
    [][ /\ next_input_value' # next_input_value =>
            \/ CallsSetNextInput
            \/ /\ InputStores
               /\ next_input_value # << >>
               /\ next_input_value' = << >>
               /\ CellAt(memory', OperandAddress(1)) = next_input_value[1]
        /\ (Running /\ OpcodeDigits(CurrentWord) # 3) =>
            next_input_value' = next_input_value
        /\ (Returns("Output") \/ Returns("Halted")) =>
            next_input_value' = next_input_value
        /\ (pc = "idle" /\ pc' = "entry") =>
            next_input_value' = next_input_value
        /\ InputStores => next_input_value' = << >>
        /\ InputFindsSlotEmpty =>
            /\ memory' = memory
            /\ pc' = "idle"
            /\ returned'[Len(returned')].kind
                   \in {"WaitingForInput", "ArgModeCannotBeImmediate", "CannotCastToUsize"}
        /\ (prog = <<3, 0, 3, 1, 99>> /\ pc = "loop" /\ instruction_ptr = 2) =>
            /\ returned' = Append(returned, WaitingForInput)
            /\ memory' = memory
            /\ CellAt(memory', 1) = 0
      ]_vars

\* [1101,1,1,7,3,0,99] was run once with the value 7 supplied beforehand:
\* the 7 stayed pending across the Add, the Input stored it at address 0 and
\* emptied the slot, and the machine halted.
C23_Witness ==
    /\ prog = <<1101, 1, 1, 7, 3, 0, 99>>
    /\ pc = "idle"
    /\ returned = <<Halted>>
    /\ memory = <<7, 1, 1, 7, 3, 0, 99, 2>>
    /\ next_input_value = << >>
    /\ last_call = Call("set_next_input", <<7>>, << >>)

\* The instruction at the pointer is one that does not end run() when it
\* succeeds: an Add, Mul, LessThan, Equals, AdjustRelativeBase or jump, or
\* an Input while a value is pending.
GoesOnIfSuccessful ==
    \/ OpcodeDigits(CurrentWord) \in {1, 2, 5, 6, 7, 8, 9}
    \/ OpcodeDigits(CurrentWord) = 3 /\ next_input_value # << >>

\* C24: run() hands control back only when it executes Halt, an Output or
\* an Input that finds the slot empty, or when it hits an error; after any
\* other instruction it goes on with the next one within the same call,
\* returning nothing. So run() need not return: [1105,1,0], a jump to
\* itself, stays inside its first run() for ever, the machine unchanged.
C24_StopConditions ==
    [][ /\ Running =>
            \/ pc' = "loop" /\ returned' = returned
            \/ /\ pc' = "idle"
               /\ Len(returned') = Len(returned) + 1
               /\ \/ ReturnsError
                  \/ Returns("Halted") /\ OpcodeDigits(CurrentWord) = 99
                  \/ Returns("Output") /\ OpcodeDigits(CurrentWord) = 4
                  \/ /\ Returns("WaitingForInput")
                     /\ OpcodeDigits(CurrentWord) = 3
                     /\ next_input_value = << >>
        /\ (Running /\ WordIsU16 /\ GoesOnIfSuccessful) =>
            \/ pc' = "loop" /\ returned' = returned
            \/ ReturnsError
        /\ (Running /\ pc' = "loop") => GoesOnIfSuccessful
        /\ returned' # returned => (Running /\ pc' = "idle")
        /\ prog = <<1105, 1, 0>> =>
            /\ returned' = << >>
            /\ Running => (pc' = "loop" /\ vm' = vm)
      ]_vars

\* [1105,1,0]: run() was called, has taken the jump back to address 0 and
\* is executing it again, having returned nothing.
C24_Witness ==
    /\ prog = <<1105, 1, 0>>
    /\ pc = "loop"
    /\ returned = << >>
    /\ instruction_ptr = 0
    /\ memory = prog

====
